---------------------------- MODULE Spec2Model ----------------------------
(***************************************************************************)
(* Model of laptou/list-disks (src/src/lib.rs, src/src/fs/macos.rs):        *)
(*   - the identity model of DeviceId / VolumeId (equality and hashing),    *)
(*   - the record translator get_device_info / get_volume_info,             *)
(*   - the snapshot get_devices,                                            *)
(*   - the event bridge monitor_devices with its three native callbacks.    *)
(*                                                                          *)
(* Encodings.  Option<T> is a sequence of length 0 (None) or 1 (Some(x)).   *)
(* An id string is a sequence of one-character strings, so that             *)
(* to_lowercase is computed character by character.  Other strings (model,  *)
(* names) are only compared with literals and stay TLA+ strings.            *)
(***************************************************************************)
EXTENDS Integers, Sequences, FiniteSets, TLC

VARIABLES
    \* ---- pure-function harness
    pin,        \* the input drawn for the pure functions
    pout,       \* their result (<<>> until applied)
    \* ---- get_devices
    mounted,    \* the mounted-filesystem entries getfsstat reports (the system)
    gdpc,       \* position inside get_devices
    hasher,     \* RandomState of the devices HashMap: raw key -> hash
    devices,    \* HashMap<DeviceId, StorageDevice>: raw key -> device
    volumes,    \* Vec<StorageVolume>
    idx,        \* number of fsstat entries already processed
    result,     \* what get_devices returned
    gsession,   \* the DASession of get_devices: "none", "open", "failed", "closed"
    earlier,    \* what the call before this one returned (<<>> when there was none)
    \* ---- monitor_devices
    pc,         \* position inside monitor_devices
    ctx,        \* the Box<CallbackContext> allocation: "none", "live", "freed"
    allocs,     \* how many times the context was allocated
    frees,      \* how many times the context was released
    registered, \* callback name -> context pointer handed to the registration
    scheduled,  \* session scheduled on the run loop
    stopReq,    \* the run loop was asked to stop (from outside)
    cb,         \* the callback being executed, <<>> when the loop is idle
    emitted,    \* the sends of the latest callback invocation, in order, each
                \* with whether the channel accepted the event
    chan,       \* the events the channel accepted, in order
    rxAlive,    \* the channel's receiver still exists
    notifs,     \* how many native notifications were dispatched
    derefs,     \* the context states seen by callbacks when they dereferenced it
    ret,        \* what monitor_devices returned
    session     \* the DASession of monitor_devices: "none", "open", "failed", "closed"

pureVars == <<pin, pout>>
snapVars == <<mounted, gdpc, hasher, devices, volumes, idx, result, gsession, earlier>>
monVars  == <<pc, ctx, allocs, frees, registered, scheduled, stopReq, cb,
              emitted, chan, rxAlive, notifs, derefs, ret, session>>
vars     == <<pureVars, snapVars, monVars>>

---------------------------------------------------------------------------
\* Option<T>

None == <<>>

Some(x) == <<x>>

IsSome(o) == o # <<>>

Unwrap(o) == o[1]

\* device_path.map(|path| DeviceId(path)): a DeviceId is its raw string.
ToDeviceId(device_path) ==
    IF IsSome(device_path) THEN Some(Unwrap(device_path)) ELSE None

\* device_path.map(PathBuf::from): the path with the same bytes.
ToPathBuf(device_path) ==
    IF IsSome(device_path) THEN Some(Unwrap(device_path)) ELSE None

---------------------------------------------------------------------------
\* Strings of ids and str::to_lowercase

LowerChar(c) ==
    CASE c = "A" -> "a"
      [] c = "B" -> "b"
      [] c = "D" -> "d"
      [] OTHER   -> c

to_lowercase(s) == [i \in 1..Len(s) |-> LowerChar(s[i])]

\* The alphabet the id strings of the model are written in.
IdChars == {"a", "A", "d", "D", "1", "2"}

\* The hash values a hasher can return.
HashVals == {0, 1}

---------------------------------------------------------------------------
\* Identity model (lib.rs).  A DeviceId / VolumeId is its raw string.

\* impl PartialEq for DeviceId
DeviceIdEq(a, b) == to_lowercase(a) = to_lowercase(b)

\* impl PartialEq for VolumeId
VolumeIdEq(a, b) == to_lowercase(a) = to_lowercase(b)

\* #[derive(Hash)] on DeviceId(String): the bytes written to the Hasher.
DeviceIdHashInput(id) == id

\* #[derive(Hash)] on VolumeId(String): the bytes written to the Hasher.
VolumeIdHashInput(id) == id

\* Hash of a DeviceId under the hasher h (a function of the bytes written).
DeviceIdHash(h, id) == h[DeviceIdHashInput(id)]

\* Hash of a VolumeId under the hasher h.
VolumeIdHash(h, id) == h[VolumeIdHashInput(id)]

---------------------------------------------------------------------------
\* Native values found in a disk-description dictionary

\* CFUUID::new_string: the canonical upper-case hexadecimal string of a CFUUID
\* (a CFUUID is modelled as its sequence of hexadecimal digits).
HexChar(n) ==
    CASE n = 1  -> "1"
      [] n = 2  -> "2"
      [] n = 10 -> "A"
      [] n = 11 -> "B"
      [] n = 13 -> "D"

CFUUID_new_string(uuid) == Some([i \in 1..Len(uuid) |-> HexChar(uuid[i])])

\* CFURL::to_file_path: the path of a file URL, None for any other URL.
to_file_path(url) == IF url.file THEN Some(url.path) ELSE None

\* CFNumber::as_i64
as_i64(num) == num.i64

\* get_from_dict: the value under a key, None when the key is absent.
get_from_dict(disk_desc, key) == disk_desc[key]

\* Length in bytes of the mount paths of the model.
PathLen(p) == IF p = "" THEN 0 ELSE 1

---------------------------------------------------------------------------
\* Record translator (macos.rs: get_volume_info, get_device_info)

\* A free-space computation that trusts the probe without looking at the path.
FreeSpaceIgnoringPath(mount_path, probe) ==
    IF IsSome(probe)
    THEN Some(Unwrap(probe).f_bavail * Unwrap(probe).f_bsize)
    ELSE None

\* The `free` block of get_volume_info: statvfs is asked only for a mount path
\* that is present and not empty.
FreeSpace(mount_path, probe) ==
    IF IsSome(mount_path)
    THEN IF PathLen(Unwrap(mount_path)) > 0
         THEN IF IsSome(probe)
              THEN Some(Unwrap(probe).f_bavail * Unwrap(probe).f_bsize)
              ELSE None
         ELSE None
    ELSE None

\* `probe` is the outcome of libc::statvfs on the mount path:
\* None when it returned < 0, Some([f_bavail, f_bsize]) otherwise.
get_volume_info(disk_desc, probe) ==
    LET uuid == get_from_dict(disk_desc, "VolumeUUID")
        volume_id == IF IsSome(uuid) THEN CFUUID_new_string(Unwrap(uuid)) ELSE None
        url == get_from_dict(disk_desc, "VolumePath")
        mount_path == IF IsSome(url) THEN to_file_path(Unwrap(url)) ELSE None
        num == get_from_dict(disk_desc, "MediaSize")
        size == IF IsSome(num) THEN as_i64(Unwrap(num)) ELSE None
        free == FreeSpace(mount_path, probe)
        device_path == get_from_dict(disk_desc, "DevicePath")
        display_name == get_from_dict(disk_desc, "VolumeName")
        media_writable == get_from_dict(disk_desc, "MediaWritable")
    IN  [ id           |-> volume_id,
          device_id    |-> ToDeviceId(device_path),
          display_name |-> display_name,
          size         |-> size,
          free         |-> free,
          path         |-> ToPathBuf(device_path),
          mounts       |-> mount_path,
          partition_id |-> None,
          is_writable  |-> media_writable,
          is_system    |-> None ]

\* A classification that looks at the internal flag before the model string.
ClassifyKindFlagFirst(device_model, is_internal) ==
    IF is_internal = Some(TRUE) THEN "InternalDrive"
    ELSE IF is_internal = Some(FALSE) THEN "ExternalDrive"
    ELSE IF device_model = Some("SD/MMC") THEN "SdCard"
    ELSE IF device_model = Some("Micro SD/M2") THEN "MicroSdCard"
    ELSE IF device_model = Some("Flash Disk") THEN "UsbFlashDrive"
    ELSE "Other"

\* The `kind` match of get_device_info.
ClassifyKind(device_model, is_internal) ==
    IF device_model = Some("SD/MMC") THEN "SdCard"
    ELSE IF device_model = Some("Micro SD/M2") THEN "MicroSdCard"
    ELSE IF device_model = Some("Flash Disk") THEN "UsbFlashDrive"
    ELSE IF is_internal = Some(TRUE) THEN "InternalDrive"
    ELSE IF is_internal = Some(FALSE) THEN "ExternalDrive"
    ELSE "Other"

get_device_info(disk_desc) ==
    LET device_path == get_from_dict(disk_desc, "DevicePath")
        device_id == ToDeviceId(device_path)
        media_uuid == get_from_dict(disk_desc, "MediaUUID")
        device_serial == IF IsSome(media_uuid)
                         THEN CFUUID_new_string(Unwrap(media_uuid)) ELSE None
        display_name == get_from_dict(disk_desc, "MediaName")
        is_internal == get_from_dict(disk_desc, "DeviceInternal")
        is_removable == get_from_dict(disk_desc, "MediaRemovable")
        is_ejectable == get_from_dict(disk_desc, "MediaEjectable")
        device_model == get_from_dict(disk_desc, "DeviceModel")
        kind == ClassifyKind(device_model, is_internal)
    IN  [ id           |-> device_id,
          display_name |-> display_name,
          model        |-> device_model,
          kind         |-> kind,
          internal     |-> is_internal,
          removable    |-> is_removable,
          ejectable    |-> is_ejectable,
          serial       |-> device_serial,
          volumes      |-> {} ]

---------------------------------------------------------------------------
\* Inputs of the model

\* Longest id string compared by the identity harness.
MaxIdLen == 2

RECURSIVE StringsUpTo(_)
StringsUpTo(n) ==
    IF n = 0 THEN {}
    ELSE StringsUpTo(n - 1) \cup [1..n -> IdChars]

IdStrings == StringsUpTo(MaxIdLen)

\* Native device paths: two that differ only in letter case, and another one.
DevicePaths == { <<"d", "1">>, <<"D", "1">>, <<"d", "2">> }

\* Native volume / media UUIDs.
Uuids == { <<10, 1>>, <<11, 2>> }

\* Outcomes of the statvfs probe.
Probes == { None, Some([f_bavail |-> 0, f_bsize |-> 512]),
            Some([f_bavail |-> 3, f_bsize |-> 512]) }

\* Every description record the translator harness is applied to.
AllDescs ==
    [ DevicePath     : {None} \cup {Some(p) : p \in {<<"d", "1">>, <<"D", "1">>}},
      VolumeUUID     : {None, Some(<<10, 1>>)},
      VolumePath     : {None, Some([file |-> FALSE, path |-> ""]),
                        Some([file |-> TRUE, path |-> ""]),
                        Some([file |-> TRUE, path |-> "/Volumes/CARD"])},
      MediaSize      : {None, Some([i64 |-> None]), Some([i64 |-> Some(4096)])},
      VolumeName     : {None, Some("CARD")},
      MediaWritable  : {None, Some(TRUE)},
      MediaUUID      : {None, Some(<<11, 2>>)},
      MediaName      : {None, Some("Media")},
      DeviceInternal : {None, Some(TRUE), Some(FALSE)},
      MediaRemovable : {None, Some(TRUE)},
      MediaEjectable : {None, Some(FALSE)},
      DeviceModel    : {None, Some("SD/MMC"), Some("Micro SD/M2"), Some("Flash Disk"),
                        Some("sd/mmc"), Some("APPLE SSD")} ]

\* A record in which only the fields given vary (the others are absent).
Desc(path, uuid, model, internal) ==
    [ DevicePath     |-> path,
      VolumeUUID     |-> uuid,
      VolumePath     |-> None,
      MediaSize      |-> None,
      VolumeName     |-> None,
      MediaWritable  |-> None,
      MediaUUID      |-> None,
      MediaName      |-> None,
      DeviceInternal |-> internal,
      MediaRemovable |-> None,
      MediaEjectable |-> None,
      DeviceModel    |-> model ]

---------------------------------------------------------------------------
\* Harness applying the pure functions to drawn inputs

PureInputs ==
    [op : {"translate"}, desc : AllDescs, probe : Probes]
    \cup [op : {"ids"}, a : IdStrings, b : IdStrings]

\* get_device_info and get_volume_info applied to one record
Translate ==
    /\ pin.op = "translate"
    /\ pout = <<>>
    /\ pout' = Some([device |-> get_device_info(pin.desc),
                     volume |-> get_volume_info(pin.desc, pin.probe)])
    /\ UNCHANGED <<pin, snapVars, monVars>>

\* == and hash applied to two DeviceIds and two VolumeIds, under one hasher
CompareIds ==
    /\ pin.op = "ids"
    /\ pout = <<>>
    /\ \E h \in [{pin.a, pin.b} -> HashVals] :
          pout' = Some([deq |-> DeviceIdEq(pin.a, pin.b),
                        dha |-> DeviceIdHash(h, pin.a),
                        dhb |-> DeviceIdHash(h, pin.b),
                        veq |-> VolumeIdEq(pin.a, pin.b),
                        vha |-> VolumeIdHash(h, pin.a),
                        vhb |-> VolumeIdHash(h, pin.b)])
    /\ UNCHANGED <<pin, snapVars, monVars>>

---------------------------------------------------------------------------
\* Snapshot (macos.rs: get_devices)

\* Largest number of mounted filesystems getfsstat reports.
MaxEntries == 2

\* The records the mounted filesystems of the model resolve to.
SnapDescs ==
    { Desc(p, u, m, None) :
        p \in {None} \cup {Some(x) : x \in DevicePaths},
        u \in {None} \cup {Some(x) : x \in Uuids},
        m \in {None, Some("SD/MMC")} }

\* One mounted filesystem: whether DADisk::from_bsd_name gives a disk, and the
\* description the disk gives (None when description() returns None).
Entries ==
    { [disk |-> FALSE, desc |-> None], [disk |-> TRUE, desc |-> None] }
    \cup { [disk |-> TRUE, desc |-> Some(d)] : d \in SnapDescs }

RECURSIVE EntryLists(_)
EntryLists(n) ==
    IF n = 0 THEN { <<>> }
    ELSE EntryLists(n - 1) \cup [1..n -> Entries]

Err(msg) == [ok |-> FALSE, err |-> msg]

Ok(v) == [ok |-> TRUE, val |-> v]

\* HashMap lookup: the keys of the map found for `key` under hasher h
\* (same hash, then ==).
HashMapFind(h, map, key) ==
    { k \in DOMAIN map : DeviceIdHash(h, k) = DeviceIdHash(h, key) /\ DeviceIdEq(k, key) }

\* A slot that is any key the map already holds.
EntrySlotAnyKey(h, map, key) ==
    IF DOMAIN map # {}
    THEN CHOOSE k \in DOMAIN map : TRUE
    ELSE key

\* The slot devices.entry(key).or_insert(..) yields: the key found, else `key`.
EntrySlot(h, map, key) ==
    IF HashMapFind(h, map, key) # {}
    THEN CHOOSE k \in HashMapFind(h, map, key) : TRUE
    ELSE key

\* devices.entry(key).or_insert(device)
EntryOrInsert(h, map, key, device) ==
    IF HashMapFind(h, map, key) # {}
    THEN map
    ELSE [k \in DOMAIN map \cup {key} |-> IF k = key THEN device ELSE map[k]]

\* HashSet<VolumeId>::insert.  An element already present is one with the same
\* hash that is ==.  Every VolumeId inserted comes from CFUUID_new_string, whose
\* strings are upper-case, so two of them that are == wrote the same bytes to
\* the hasher and hash alike under any RandomState.
HashSetInsert(set, id) ==
    IF \E e \in set : VolumeIdHashInput(e) = VolumeIdHashInput(id) /\ VolumeIdEq(e, id)
    THEN set
    ELSE set \cup {id}

\* The orders in which HashMap::into_values can yield the values.
RECURSIVE Orders(_)
Orders(S) ==
    IF S = {} THEN { <<>> }
    ELSE UNION { { <<x>> \o t : t \in Orders(S \ {x}) } : x \in S }

\* let session = DASession::new(None)?; HashMap::new(); Vec::new()
GetDevicesCall ==
    /\ gdpc = "idle"
    /\ \E sessionOk \in BOOLEAN :
         IF sessionOk
         THEN /\ gdpc' = "fsstat"
              /\ gsession' = "open"
              /\ hasher' \in [DevicePaths -> HashVals]
              /\ devices' = << >>
              /\ volumes' = << >>
              /\ UNCHANGED result
         ELSE /\ gdpc' = "done"
              /\ gsession' = "failed"
              /\ result' = Err("could not create disk session")
              /\ UNCHANGED <<hasher, devices, volumes>>
    /\ UNCHANGED <<mounted, idx, earlier, pureVars, monVars>>

\* The two getfsstat calls; either can fail.
GetFsStat ==
    /\ gdpc = "fsstat"
    /\ \E sizeOk \in BOOLEAN, countOk \in BOOLEAN :
         IF sizeOk /\ countOk
         THEN /\ gdpc' = "loop"
              /\ idx' = 0
              /\ UNCHANGED <<result, gsession>>
         ELSE /\ gdpc' = "done"
              /\ gsession' = "closed"
              /\ result' = Err("getfsstat failed")
              /\ UNCHANGED idx
    /\ UNCHANGED <<mounted, hasher, devices, volumes, earlier, pureVars, monVars>>

\* An iteration that keeps the volume only when the record has a device id.
ProcessEntryVolumeNeedsDevice ==
    /\ gdpc = "loop"
    /\ idx < Len(mounted)
    /\ idx' = idx + 1
    /\ LET fs == mounted[idx + 1] IN
         IF ~fs.disk \/ ~IsSome(fs.desc)
         THEN UNCHANGED <<devices, volumes>>
         ELSE \E probe \in Probes :
                LET disk_desc == Unwrap(fs.desc)
                    volume == get_volume_info(disk_desc, probe)
                    device == get_device_info(disk_desc)
                IN  IF IsSome(device.id)
                    THEN LET device_id == Unwrap(device.id)
                             slot == EntrySlot(hasher, devices, device_id)
                             map == EntryOrInsert(hasher, devices, device_id, device)
                         IN  /\ volumes' = Append(volumes, volume)
                             /\ devices' =
                                  IF IsSome(volume.id)
                                  THEN [map EXCEPT ![slot].volumes =
                                          HashSetInsert(@, Unwrap(volume.id))]
                                  ELSE map
                    ELSE UNCHANGED <<devices, volumes>>
    /\ UNCHANGED <<mounted, gdpc, hasher, result, gsession, earlier, pureVars, monVars>>

\* One iteration of `for fs in fsstat`.
ProcessEntry ==
    /\ gdpc = "loop"
    /\ idx < Len(mounted)
    /\ idx' = idx + 1
    /\ LET fs == mounted[idx + 1] IN
         IF ~fs.disk \/ ~IsSome(fs.desc)
         THEN UNCHANGED <<devices, volumes>>
         ELSE \E probe \in Probes :
                LET disk_desc == Unwrap(fs.desc)
                    volume == get_volume_info(disk_desc, probe)
                    device == get_device_info(disk_desc)
                IN  /\ volumes' = Append(volumes, volume)
                    /\ IF IsSome(device.id)
                       THEN LET device_id == Unwrap(device.id)
                                slot == EntrySlot(hasher, devices, device_id)
                                map == EntryOrInsert(hasher, devices, device_id, device)
                            IN  devices' =
                                  IF IsSome(volume.id)
                                  THEN [map EXCEPT ![slot].volumes =
                                          HashSetInsert(@, Unwrap(volume.id))]
                                  ELSE map
                       ELSE UNCHANGED devices
    /\ UNCHANGED <<mounted, gdpc, hasher, result, gsession, earlier, pureVars, monVars>>

\* Ok((devices.into_values().collect(), volumes))
GetDevicesReturn ==
    /\ gdpc = "loop"
    /\ idx = Len(mounted)
    /\ gdpc' = "done"
    /\ gsession' = "closed"
    /\ \E order \in Orders(DOMAIN devices) :
         result' = Ok([devices |-> [i \in 1..Len(order) |-> devices[order[i]]],
                       volumes |-> volumes])
    /\ UNCHANGED <<mounted, hasher, devices, volumes, idx, earlier, pureVars, monVars>>

\* The caller keeps what get_devices returned and calls it once more; the call
\* starts from nothing: a new session, a new HashMap, a new Vec.
CallAgain ==
    /\ gdpc = "done"
    /\ earlier = None
    /\ earlier' = Some(result)
    /\ gdpc' = "idle"
    /\ gsession' = "none"
    /\ hasher' = << >>
    /\ devices' = << >>
    /\ volumes' = << >>
    /\ idx' = 0
    /\ result' = << >>
    /\ UNCHANGED <<mounted, pureVars, monVars>>

---------------------------------------------------------------------------
\* Event bridge (macos.rs: monitor_devices, mod callbacks)

\* Largest number of native notifications the run loop dispatches.
MaxNotifs == 3

\* The records the notified disks of the model give.
MonDescs ==
    { Desc(p, u, None, None) :
        p \in {None, Some(<<"d", "1">>)},
        u \in {None} \cup {Some(x) : x \in Uuids} }

\* StorageEvent
AddDevice(device) == [type |-> "AddDevice", device |-> device]

AddVolume(volume) == [type |-> "AddVolume", volume |-> volume]

RemoveDevice(id) == [type |-> "RemoveDevice", id |-> id]

RemoveVolume(id) == [type |-> "RemoveVolume", id |-> id]

\* The sends of callbacks::disk_appeared for a readable record, in order.
disk_appeared(disk_desc, probe) ==
    LET volume == get_volume_info(disk_desc, probe)
        device == get_device_info(disk_desc)
    IN  << AddDevice(device), AddVolume(volume) >>

\* A disk_changed that reports updates instead of additions.
disk_changedAsUpdate(disk_desc, probe) ==
    LET volume == get_volume_info(disk_desc, probe)
        device == get_device_info(disk_desc)
    IN  << [type |-> "UpdateDevice", device |-> device],
           [type |-> "UpdateVolume", volume |-> volume] >>

\* The sends of callbacks::disk_changed for a readable record, in order.
disk_changed(disk_desc, probe) ==
    LET volume == get_volume_info(disk_desc, probe)
        device == get_device_info(disk_desc)
    IN  << AddDevice(device), AddVolume(volume) >>

\* A disk_disappeared that removes the device before the volume.
disk_disappearedDeviceFirst(disk_desc, probe) ==
    LET volume_id == get_volume_info(disk_desc, probe).id
        device_id == get_device_info(disk_desc).id
    IN  (IF IsSome(device_id) THEN << RemoveDevice(Unwrap(device_id)) >> ELSE << >>)
        \o (IF IsSome(volume_id) THEN << RemoveVolume(Unwrap(volume_id)) >> ELSE << >>)

\* A disk_disappeared that removes the device only inside the volume branch.
disk_disappearedNested(disk_desc, probe) ==
    LET volume_id == get_volume_info(disk_desc, probe).id
        device_id == get_device_info(disk_desc).id
    IN  IF IsSome(volume_id)
        THEN << RemoveVolume(Unwrap(volume_id)) >>
             \o (IF IsSome(device_id) THEN << RemoveDevice(Unwrap(device_id)) >>
                 ELSE << >>)
        ELSE << >>

\* The sends of callbacks::disk_disappeared for a readable record, in order.
disk_disappeared(disk_desc, probe) ==
    LET volume_id == get_volume_info(disk_desc, probe).id
        device_id == get_device_info(disk_desc).id
    IN  (IF IsSome(volume_id) THEN << RemoveVolume(Unwrap(volume_id)) >> ELSE << >>)
        \o (IF IsSome(device_id) THEN << RemoveDevice(Unwrap(device_id)) >> ELSE << >>)

\* A callback that unwraps the Result of tx.send.
OnSendResultUnwrap(ok) == IF ok THEN "continue" ELSE "panic"

\* What a callback does with the Result of tx.send: `let _ =` drops it.
OnSendResult(ok) == "continue"

\* The callback slot of a run loop that has not run a callback yet.
NoCallback == [kind |-> "none", desc |-> None, todo |-> << >>]

\* A monitor_devices that tries again when the session cannot be opened.
MonitorCallRetry ==
    /\ pc = "idle"
    /\ \E sessionOk \in BOOLEAN :
         IF ~sessionOk
         THEN /\ pc' = "idle"
              /\ session' = "failed"
              /\ UNCHANGED scheduled
         ELSE /\ pc' = "scheduled"
              /\ session' = "open"
              /\ scheduled' = TRUE
    /\ UNCHANGED <<ctx, allocs, frees, registered, stopReq, cb, emitted, chan,
                   rxAlive, notifs, derefs, ret, pureVars, snapVars>>

\* DASession::new, CFRunLoop::current, schedule_with_run_loop
MonitorCall ==
    /\ pc = "idle"
    /\ \E sessionOk \in BOOLEAN, runLoopOk \in BOOLEAN :
         IF ~sessionOk
         THEN /\ pc' = "done"
              /\ session' = "failed"
              /\ ret' = Err("could not create disk session")
              /\ UNCHANGED scheduled
         ELSE IF ~runLoopOk
         THEN /\ pc' = "done"
              /\ session' = "closed"
              /\ ret' = Err("could not get current run loop")
              /\ UNCHANGED scheduled
         ELSE /\ pc' = "scheduled"
              /\ session' = "open"
              /\ scheduled' = TRUE
              /\ UNCHANGED ret
    /\ UNCHANGED <<ctx, allocs, frees, registered, stopReq, cb, emitted, chan,
                   rxAlive, notifs, derefs, pureVars, snapVars>>

\* A context whose Box is dropped as soon as its pointer is taken.
AllocContextDropped ==
    /\ pc = "scheduled"
    /\ pc' = "allocated"
    /\ ctx' = "freed"
    /\ allocs' = allocs + 1
    /\ frees' = frees + 1
    /\ UNCHANGED <<registered, scheduled, stopReq, cb, emitted, chan,
                   rxAlive, notifs, derefs, ret, session, pureVars, snapVars>>

\* Box::new(CallbackContext { tx }); Box::into_raw
AllocContext ==
    /\ pc = "scheduled"
    /\ pc' = "allocated"
    /\ ctx' = "live"
    /\ allocs' = allocs + 1
    /\ UNCHANGED <<frees, registered, scheduled, stopReq, cb, emitted, chan,
                   rxAlive, notifs, derefs, ret, session, pureVars, snapVars>>

\* The pointer Box::into_raw gave: the number of the allocation.
ContextPtr == allocs

\* DARegisterDiskAppearedCallback(.., context)
RegisterAppeared ==
    /\ pc = "allocated"
    /\ pc' = "registeredAppeared"
    /\ registered' = [k \in DOMAIN registered \cup {"appeared"} |->
                        IF k = "appeared" THEN ContextPtr ELSE registered[k]]
    /\ UNCHANGED <<ctx, allocs, frees, scheduled, stopReq, cb, emitted, chan,
                   rxAlive, notifs, derefs, ret, session, pureVars, snapVars>>

\* DARegisterDiskDisappearedCallback(.., context)
RegisterDisappeared ==
    /\ pc = "registeredAppeared"
    /\ pc' = "registeredDisappeared"
    /\ registered' = [k \in DOMAIN registered \cup {"disappeared"} |->
                        IF k = "disappeared" THEN ContextPtr ELSE registered[k]]
    /\ UNCHANGED <<ctx, allocs, frees, scheduled, stopReq, cb, emitted, chan,
                   rxAlive, notifs, derefs, ret, session, pureVars, snapVars>>

\* DARegisterDiskDescriptionChangedCallback(.., context); CFRunLoop::run() entered
RegisterChanged ==
    /\ pc = "registeredDisappeared"
    /\ pc' = "running"
    /\ registered' = [k \in DOMAIN registered \cup {"changed"} |->
                        IF k = "changed" THEN ContextPtr ELSE registered[k]]
    /\ UNCHANGED <<ctx, allocs, frees, scheduled, stopReq, cb, emitted, chan,
                   rxAlive, notifs, derefs, ret, session, pureVars, snapVars>>

\* The state of the allocation a registered pointer points to.
Pointee(ptr) == IF ptr = allocs THEN ctx ELSE "none"

\* A dispatch that does not wait for the running callback to return.
CanInvokeReentrant(kind) ==
    /\ pc = "running"
    /\ scheduled
    /\ kind \in DOMAIN registered
    /\ notifs < MaxNotifs

\* The run loop can invoke the callback registered under `kind`: it is running
\* with the session scheduled on it, and runs one callback at a time.
CanInvoke(kind) ==
    /\ pc = "running"
    /\ scheduled
    /\ kind \in DOMAIN registered
    /\ cb.todo = << >>
    /\ notifs < MaxNotifs

\* The context states callbacks have seen, after the callback registered under
\* `kind` ran for a disk whose description is `desc`: it returns before touching
\* the context when there is no description.
Dereference(kind, desc) ==
    IF IsSome(desc) THEN derefs \cup {Pointee(registered[kind])} ELSE derefs

\* A native 'appeared' notification: disk_appeared up to its first send
DiskAppeared ==
    /\ CanInvoke("appeared")
    /\ \E desc \in {None} \cup {Some(d) : d \in MonDescs}, probe \in Probes :
         /\ cb' = [kind |-> "appeared", desc |-> desc,
                   todo |-> IF IsSome(desc) THEN disk_appeared(Unwrap(desc), probe)
                            ELSE << >>]
         /\ derefs' = Dereference("appeared", desc)
    /\ notifs' = notifs + 1
    /\ emitted' = << >>
    /\ UNCHANGED <<pc, ctx, allocs, frees, registered, scheduled, stopReq, chan,
                   rxAlive, ret, session, pureVars, snapVars>>

\* A native 'description changed' notification: disk_changed up to its first send
DiskChanged ==
    /\ CanInvoke("changed")
    /\ \E desc \in {None} \cup {Some(d) : d \in MonDescs}, probe \in Probes :
         /\ cb' = [kind |-> "changed", desc |-> desc,
                   todo |-> IF IsSome(desc) THEN disk_changed(Unwrap(desc), probe)
                            ELSE << >>]
         /\ derefs' = Dereference("changed", desc)
    /\ notifs' = notifs + 1
    /\ emitted' = << >>
    /\ UNCHANGED <<pc, ctx, allocs, frees, registered, scheduled, stopReq, chan,
                   rxAlive, ret, session, pureVars, snapVars>>

\* A native 'disappeared' notification: disk_disappeared up to its first send
DiskDisappeared ==
    /\ CanInvoke("disappeared")
    /\ \E desc \in {None} \cup {Some(d) : d \in MonDescs}, probe \in Probes :
         /\ cb' = [kind |-> "disappeared", desc |-> desc,
                   todo |-> IF IsSome(desc) THEN disk_disappeared(Unwrap(desc), probe)
                            ELSE << >>]
         /\ derefs' = Dereference("disappeared", desc)
    /\ notifs' = notifs + 1
    /\ emitted' = << >>
    /\ UNCHANGED <<pc, ctx, allocs, frees, registered, scheduled, stopReq, chan,
                   rxAlive, ret, session, pureVars, snapVars>>

\* let _ = context.tx.send(event): the next send of the running callback.  The
\* channel is unbounded; send fails only when the receiver is gone, and then
\* the event is dropped with the error.
Send ==
    /\ pc = "running"
    /\ cb.todo # << >>
    /\ LET event == Head(cb.todo)
           ok == rxAlive
       IN  /\ chan' = IF ok THEN Append(chan, event) ELSE chan
           /\ emitted' = Append(emitted, [event |-> event, ok |-> ok])
           /\ IF OnSendResult(ok) = "continue"
              THEN /\ cb' = [cb EXCEPT !.todo = Tail(@)]
                   /\ pc' = pc
              ELSE /\ cb' = cb
                   /\ pc' = "panicked"
    /\ UNCHANGED <<ctx, allocs, frees, registered, scheduled, stopReq, rxAlive,
                   notifs, derefs, ret, session, pureVars, snapVars>>

\* The consumer drops the receiver (another thread, at any time).
DropReceiver ==
    /\ rxAlive
    /\ rxAlive' = FALSE
    /\ UNCHANGED <<pc, ctx, allocs, frees, registered, scheduled, stopReq, cb,
                   emitted, chan, notifs, derefs, ret, session, pureVars, snapVars>>

\* The hosting process stops the run loop (CFRunLoopStop, from outside).
StopRunLoop ==
    /\ pc = "running"
    /\ ~stopReq
    /\ stopReq' = TRUE
    /\ UNCHANGED <<pc, ctx, allocs, frees, registered, scheduled, cb, emitted,
                   chan, rxAlive, notifs, derefs, ret, session, pureVars, snapVars>>

\* A run loop that returns when the receiver is gone.
RunLoopReturnOnDrop ==
    /\ pc = "running"
    /\ ~rxAlive
    /\ cb.todo = << >>
    /\ pc' = "returned"
    /\ UNCHANGED <<ctx, allocs, frees, registered, scheduled, stopReq, cb,
                   emitted, chan, rxAlive, notifs, derefs, ret, session, pureVars, snapVars>>

\* CFRunLoop::run() returns: the loop was stopped and no callback is running.
RunLoopReturn ==
    /\ pc = "running"
    /\ stopReq
    /\ cb.todo = << >>
    /\ pc' = "returned"
    /\ UNCHANGED <<ctx, allocs, frees, registered, scheduled, stopReq, cb,
                   emitted, chan, rxAlive, notifs, derefs, ret, session, pureVars, snapVars>>

\* session.unschedule_from_run_loop
Unschedule ==
    /\ pc = "returned"
    /\ pc' = "unscheduled"
    /\ scheduled' = FALSE
    /\ UNCHANGED <<ctx, allocs, frees, registered, stopReq, cb, emitted, chan,
                   rxAlive, notifs, derefs, ret, session, pureVars, snapVars>>

\* A release of the context that comes before the session is unscheduled.
FreeContextFirst ==
    /\ pc = "returned"
    /\ ctx = "live"
    /\ ctx' = "freed"
    /\ frees' = frees + 1
    /\ UNCHANGED <<pc, allocs, registered, scheduled, stopReq, cb, emitted, chan,
                   rxAlive, notifs, derefs, ret, session, pureVars, snapVars>>

\* let _ = Box::from_raw(context): the context is dropped
FreeContext ==
    /\ pc = "unscheduled"
    /\ pc' = "released"
    /\ ctx' = "freed"
    /\ frees' = frees + 1
    /\ UNCHANGED <<allocs, registered, scheduled, stopReq, cb, emitted, chan,
                   rxAlive, notifs, derefs, ret, session, pureVars, snapVars>>

\* Ok(())
MonitorReturn ==
    /\ pc = "released"
    /\ pc' = "done"
    /\ session' = "closed"
    /\ ret' = Ok(<< >>)
    /\ UNCHANGED <<ctx, allocs, frees, registered, scheduled, stopReq, cb,
                   emitted, chan, rxAlive, notifs, derefs, pureVars, snapVars>>

---------------------------------------------------------------------------
\* Specifications

InitPure ==
    /\ pin \in PureInputs
    /\ pout = << >>

IdlePure ==
    /\ pin = [op |-> "none"]
    /\ pout = << >>

InitSnap ==
    /\ mounted \in EntryLists(MaxEntries)
    /\ gdpc = "idle"
    /\ hasher = << >>
    /\ devices = << >>
    /\ volumes = << >>
    /\ idx = 0
    /\ result = << >>
    /\ gsession = "none"
    /\ earlier = << >>

IdleSnap ==
    /\ mounted = << >>
    /\ gdpc = "idle"
    /\ hasher = << >>
    /\ devices = << >>
    /\ volumes = << >>
    /\ idx = 0
    /\ result = << >>
    /\ gsession = "none"
    /\ earlier = << >>

InitMon ==
    /\ pc = "idle"
    /\ ctx = "none"
    /\ allocs = 0
    /\ frees = 0
    /\ registered = << >>
    /\ scheduled = FALSE
    /\ stopReq = FALSE
    /\ cb = NoCallback
    /\ emitted = << >>
    /\ chan = << >>
    /\ rxAlive = TRUE
    /\ notifs = 0
    /\ derefs = {}
    /\ ret = << >>
    /\ session = "none"

\* The pure functions applied to drawn inputs
PureInit == InitPure /\ IdleSnap /\ InitMon

PureNext == Translate \/ CompareIds

SpecPure == PureInit /\ [][PureNext]_vars

\* get_devices on a system whose mounted filesystems do not change
SnapInit == IdlePure /\ InitSnap /\ InitMon

SnapNext == GetDevicesCall \/ GetFsStat \/ ProcessEntry \/ GetDevicesReturn

SpecSnap == SnapInit /\ [][SnapNext]_vars

\* Two consecutive get_devices calls on the same system
TwiceNext == SnapNext \/ CallAgain

SpecTwice == SnapInit /\ [][TwiceNext]_vars

\* Both entry points side by side, monitor_devices on a system that sends no
\* notification until the run loop is stopped
OpenInit ==
    /\ IdlePure
    /\ InitMon
    /\ mounted \in EntryLists(1)
    /\ gdpc = "idle"
    /\ hasher = << >>
    /\ devices = << >>
    /\ volumes = << >>
    /\ idx = 0
    /\ result = << >>
    /\ gsession = "none"
    /\ earlier = << >>

OpenNext ==
    \/ GetDevicesCall \/ GetFsStat \/ ProcessEntry \/ GetDevicesReturn
    \/ MonitorCall \/ AllocContext
    \/ RegisterAppeared \/ RegisterDisappeared \/ RegisterChanged
    \/ DropReceiver \/ StopRunLoop
    \/ RunLoopReturn \/ Unschedule \/ FreeContext \/ MonitorReturn

SpecOpen == OpenInit /\ [][OpenNext]_vars

\* monitor_devices, the native notifications and the consumer's side of the channel
Init == IdlePure /\ IdleSnap /\ InitMon

Next ==
    \/ MonitorCall \/ AllocContext
    \/ RegisterAppeared \/ RegisterDisappeared \/ RegisterChanged
    \/ DiskAppeared \/ DiskChanged \/ DiskDisappeared \/ Send
    \/ DropReceiver \/ StopRunLoop
    \/ RunLoopReturn \/ Unschedule \/ FreeContext \/ MonitorReturn

Spec == Init /\ [][Next]_vars

\* The same, with the progress the single run-loop thread makes: a callback that
\* has a send left makes it, a stopped run loop returns once the running callback
\* has returned, and monitor_devices then runs to its end.
SpecFair ==
    /\ Spec
    /\ WF_vars(Send)
    /\ SF_vars(RunLoopReturn)
    /\ WF_vars(Unschedule)
    /\ WF_vars(FreeContext)
    /\ WF_vars(MonitorReturn)

---------------------------------------------------------------------------
\* Properties of the identity model and of the translator (SpecPure)

\* C2: two ids that differ only in letter case are == and have the same hash,
\* for DeviceId and for VolumeId alike.
C2_CaseVariantsEqualAndHashAlike ==
    (pin.op = "ids" /\ IsSome(pout) /\ to_lowercase(pin.a) = to_lowercase(pin.b))
    => /\ Unwrap(pout).deq /\ Unwrap(pout).dha = Unwrap(pout).dhb
       /\ Unwrap(pout).veq /\ Unwrap(pout).vha = Unwrap(pout).vhb

\* The known card / flash labels of the device model.
KnownModels == {Some("SD/MMC"), Some("Micro SD/M2"), Some("Flash Disk")}

\* C10: the kind of the device get_device_info returns is decided by the model
\* label when it is one of the three known ones, whatever the internal flag is,
\* and by the internal flag alone otherwise.
C10_KindPrecedence ==
    (pin.op = "translate" /\ IsSome(pout))
    => LET model == pin.desc.DeviceModel
           internal == pin.desc.DeviceInternal
           kind == Unwrap(pout).device.kind
       IN  /\ model = Some("SD/MMC") => kind = "SdCard"
           /\ model = Some("Micro SD/M2") => kind = "MicroSdCard"
           /\ model = Some("Flash Disk") => kind = "UsbFlashDrive"
           /\ (model \notin KnownModels /\ internal = Some(TRUE))
                 => kind = "InternalDrive"
           /\ (model \notin KnownModels /\ internal = Some(FALSE))
                 => kind = "ExternalDrive"
           /\ (model \notin KnownModels /\ internal = None) => kind = "Other"

\* A known label classified against the internal flag, and an unknown label
\* that differs from a known one only in case classified by the flag.
C10_Witness ==
    /\ pin.op = "translate"
    /\ IsSome(pout)
    /\ pin.desc.DeviceModel = Some("Flash Disk")
    /\ pin.desc.DeviceInternal = Some(TRUE)
    /\ Unwrap(pout).device.kind = "UsbFlashDrive"

---------------------------------------------------------------------------
\* Properties of get_devices (SpecSnap)

\* get_devices returned Ok
Returned == gdpc = "done" /\ result.ok

\* The indices of the mounted filesystems whose disk and description resolve.
Resolved == { i \in 1..Len(mounted) : mounted[i].disk /\ IsSome(mounted[i].desc) }

\* The device id the record of entry i gives.
EntryDeviceId(i) == get_device_info(Unwrap(mounted[i].desc)).id

\* The volume id the record of entry i gives.
EntryVolumeId(i) == get_volume_info(Unwrap(mounted[i].desc), None).id

\* The resolved entries whose device id is == to the DeviceId d.
EntriesOf(d) ==
    { i \in Resolved : IsSome(EntryDeviceId(i)) /\ DeviceIdEq(Unwrap(EntryDeviceId(i)), d) }

\* The positions in the devices output of the devices whose id is == to d.
DevicesOf(d) ==
    { j \in 1..Len(result.val.devices) :
        /\ IsSome(result.val.devices[j].id)
        /\ DeviceIdEq(Unwrap(result.val.devices[j].id), d) }

\* The volume set s contains the VolumeId i (under VolumeId equality).
HasVolume(s, i) == \E e \in s : VolumeIdEq(e, i)

\* The scalar fields of a device.
Scalars(dev) ==
    << dev.display_name, dev.model, dev.kind, dev.internal, dev.removable,
       dev.ejectable, dev.serial >>

\* C4: after get_devices returns Ok, every output volume that has an id and a
\* device id is in the volumes set of the output device with that device id
\* (there is one such device, and each device with that id holds the volume).
C4_VolumeLinkedToItsDevice ==
    Returned =>
      \A n \in 1..Len(result.val.volumes) :
         LET v == result.val.volumes[n] IN
           (IsSome(v.device_id) /\ IsSome(v.id)) =>
              /\ DevicesOf(Unwrap(v.device_id)) # {}
              /\ \A j \in DevicesOf(Unwrap(v.device_id)) :
                    HasVolume(result.val.devices[j].volumes, Unwrap(v.id))

\* C5: when several entries resolve to the same device id, the output holds
\* exactly one device for that id, with the scalar fields of the first such
\* entry and the volume ids of all of them, and one volume per entry.
C5_OneDevicePerIdFirstWins ==
    Returned =>
      /\ \A i \in Resolved :
           IsSome(EntryDeviceId(i)) =>
             LET d == Unwrap(EntryDeviceId(i))
                 first == CHOOSE k \in EntriesOf(d) : \A m \in EntriesOf(d) : k <= m
             IN  /\ Cardinality(DevicesOf(d)) = 1
                 /\ \A j \in DevicesOf(d) :
                      LET dev == result.val.devices[j] IN
                        /\ Scalars(dev) =
                             Scalars(get_device_info(Unwrap(mounted[first].desc)))
                        /\ \A m \in EntriesOf(d) :
                             IsSome(EntryVolumeId(m)) =>
                                HasVolume(dev.volumes, Unwrap(EntryVolumeId(m)))
                        /\ \A e \in dev.volumes :
                             \E m \in EntriesOf(d) :
                                EntryVolumeId(m) = Some(e)
      /\ Len(result.val.volumes) = Cardinality(Resolved)

---------------------------------------------------------------------------
\* Properties of monitor_devices and its callbacks (Spec)

\* The events of the sends made so far by the latest callback.
EmittedEvents == [i \in 1..Len(emitted) |-> emitted[i].event]

\* The latest callback ran (or is running) the kind `kind` on a readable record.
Handling(kind) == cb.kind = kind /\ IsSome(cb.desc)

\* The volume id and the device id of the record of the latest callback.
CbVolumeId == get_volume_info(Unwrap(cb.desc), None).id

CbDeviceId == get_device_info(Unwrap(cb.desc)).id

\* C1: a 'disappeared' notification whose record gives both ids sends
\* RemoveVolume and then RemoveDevice: what it has sent, followed by what it
\* still has to send, is always that pair in that order, and the channel never
\* accepts its RemoveDevice without having accepted its RemoveVolume.
C1_RemoveVolumeBeforeRemoveDevice ==
    (Handling("disappeared") /\ IsSome(CbVolumeId) /\ IsSome(CbDeviceId))
    => /\ EmittedEvents \o cb.todo =
            << RemoveVolume(Unwrap(CbVolumeId)), RemoveDevice(Unwrap(CbDeviceId)) >>
       /\ \A i \in 1..Len(emitted) :
             emitted[i].event.type = "RemoveDevice" =>
                /\ i > 1
                /\ emitted[i - 1].event.type = "RemoveVolume"
                /\ emitted[i].ok => emitted[i - 1].ok

\* Both removals of one notification were sent and accepted.
C1_Witness ==
    /\ Handling("disappeared")
    /\ cb.todo = << >>
    /\ Len(emitted) = 2
    /\ emitted[1] = [event |-> RemoveVolume(Unwrap(CbVolumeId)), ok |-> TRUE]
    /\ emitted[2] = [event |-> RemoveDevice(Unwrap(CbDeviceId)), ok |-> TRUE]
    /\ Len(chan) >= 2
    /\ chan[Len(chan)] = emitted[2].event
    /\ chan[Len(chan) - 1] = emitted[1].event

\* C3: the context is allocated once, before any registration; every
\* registration receives the pointer of that allocation; it is released once,
\* by monitor_devices after the run loop returned; and every callback that
\* dereferenced the context, or is still running, found it allocated and not
\* released.
C3_ContextOutlivesCallbacks ==
    /\ allocs <= 1
    /\ frees <= 1
    /\ DOMAIN registered # {} => (allocs = 1 /\ pc \notin {"idle", "scheduled"})
    /\ \A k \in DOMAIN registered : registered[k] = 1 /\ Pointee(registered[k]) = ctx
    /\ ctx = "none" <=> allocs = 0
    /\ ctx = "freed" <=> frees = 1
    /\ ctx = "freed" => pc \in {"released", "done"}
    /\ derefs \subseteq {"live"}
    /\ cb.todo # << >> => ctx = "live"

\* Callbacks of all three kinds dereferenced the context, and it was released
\* after the run loop had returned.
C3_Witness ==
    /\ pc = "done"
    /\ ret = Ok(<< >>)
    /\ DOMAIN registered = {"appeared", "disappeared", "changed"}
    /\ derefs = {"live"}
    /\ notifs = 3
    /\ ctx = "freed"
    /\ frees = 1

\* The volumes a consumer knows after applying the events `evs` in order:
\* AddVolume upserts by id, RemoveVolume deletes by id (volumes without an id
\* cannot be tracked and are left out).
RECURSIVE KnownVolumes(_)
KnownVolumes(evs) ==
    IF evs = << >> THEN {}
    ELSE LET prev == KnownVolumes(SubSeq(evs, 1, Len(evs) - 1))
             e == evs[Len(evs)]
         IN  IF e.type = "AddVolume"
             THEN IF IsSome(e.volume.id)
                  THEN { v \in prev : ~VolumeIdEq(Unwrap(v.id), Unwrap(e.volume.id)) }
                       \cup { e.volume }
                  ELSE prev
             ELSE IF e.type = "RemoveVolume"
             THEN { v \in prev : ~VolumeIdEq(Unwrap(v.id), e.id) }
             ELSE prev

\* C6: a consumer applying the channel's events in order knows, right after a
\* RemoveDevice for d, no volume whose device_id is d.
C6_NoOrphanVolumeAfterRemoveDevice ==
    \A n \in 1..Len(chan) :
       chan[n].type = "RemoveDevice" =>
          \A v \in KnownVolumes(SubSeq(chan, 1, n)) :
             ~(IsSome(v.device_id) /\ DeviceIdEq(Unwrap(v.device_id), chan[n].id))

\* monitor_devices is past CFRunLoop::run() on its way to Ok(()).
PastRunLoop ==
    \/ pc \in {"returned", "unscheduled", "released"}
    \/ pc = "done" /\ ret = Ok(<< >>)

\* C7: once the receiver is gone, a send changes nothing but the callback's
\* progress: no event is delivered, nothing is raised, the callback goes on to
\* its next send and the run loop keeps running; monitor_devices never panics
\* and gets past the run loop only when the loop was stopped.
C7_SendFailureIgnored ==
    /\ [](pc # "panicked")
    /\ [](PastRunLoop => stopReq)
    /\ [][ ~rxAlive => chan' = chan ]_vars
    /\ [][ (~rxAlive /\ emitted' # emitted /\ emitted' # << >>)
             => /\ pc = "running" /\ pc' = "running"
                /\ Len(emitted') = Len(emitted) + 1
                /\ ~emitted'[Len(emitted')].ok
                /\ cb'.todo = Tail(cb.todo)
                /\ ret' = ret ]_vars

\* After the receiver was dropped before any event was accepted, all the
\* notifications were handled, the last one with two failed sends, and
\* monitor_devices returned Ok once the loop was stopped.
C7_Witness ==
    /\ ~rxAlive
    /\ chan = << >>
    /\ notifs = MaxNotifs
    /\ Len(emitted) = 2
    /\ ~emitted[1].ok /\ ~emitted[2].ok
    /\ pc = "done"
    /\ ret = Ok(<< >>)

\* C8: an 'appeared' or a 'description changed' notification with a readable
\* record sends AddDevice(device) and then AddVolume(volume) and nothing else:
\* what it has sent followed by what it still has to send is always that pair.
C8_AddDeviceThenAddVolume ==
    (Handling("appeared") \/ Handling("changed"))
    => /\ \E probe \in Probes :
            EmittedEvents \o cb.todo =
               << AddDevice(get_device_info(Unwrap(cb.desc))),
                  AddVolume(get_volume_info(Unwrap(cb.desc), probe)) >>
       /\ \A i \in 1..Len(emitted) :
             emitted[i].event.type \notin {"UpdateDevice", "UpdateVolume"}

\* A 'description changed' notification has sent its two events.
C8_Witness ==
    /\ Handling("changed")
    /\ cb.todo = << >>
    /\ Len(emitted) = 2
    /\ emitted[1].event.type = "AddDevice"
    /\ emitted[2].event.type = "AddVolume"
    /\ emitted[2].ok

---------------------------------------------------------------------------
\* Properties of the opening of the session (SpecOpen)

\* C9: when the session cannot be opened, monitor_devices and get_devices have
\* returned the error (there is no state in which they try again), and
\* monitor_devices has allocated no context, registered no callback, scheduled
\* nothing, entered no run loop and sent nothing.
C9_SessionFailureIsFatal ==
    /\ session = "failed"
         => /\ pc = "done"
            /\ ret = Err("could not create disk session")
            /\ ctx = "none" /\ allocs = 0 /\ frees = 0
            /\ DOMAIN registered = {}
            /\ ~scheduled
            /\ notifs = 0 /\ chan = << >> /\ emitted = << >>
    /\ gsession = "failed"
         => /\ gdpc = "done"
            /\ result = Err("could not create disk session")
            /\ idx = 0 /\ volumes = << >>

\* Both calls failed to open their session.
C9_Witness ==
    /\ session = "failed" /\ pc = "done"
    /\ gsession = "failed" /\ gdpc = "done"

---------------------------------------------------------------------------
\* Further properties of the translator (SpecPure)

\* C14: a volume with no mount has no free space, and a volume has free space
\* only when its mount path is present and not empty and statvfs succeeded.
C14_FreeOnlyForProbedMount ==
    (pin.op = "translate" /\ IsSome(pout))
    => LET volume == Unwrap(pout).volume IN
         /\ volume.mounts = << >> => volume.free = None
         /\ IsSome(volume.free)
              => /\ volume.mounts # << >>
                 /\ volume.mounts[1] # ""
                 /\ IsSome(pin.probe)

\* statvfs would have succeeded, but the record's volume path is no file path:
\* the volume has no mount and no free space.
C14_Witness ==
    /\ pin.op = "translate"
    /\ IsSome(pout)
    /\ IsSome(pin.desc.VolumePath)
    /\ IsSome(pin.probe)
    /\ Unwrap(pout).volume.mounts = << >>
    /\ Unwrap(pout).volume.free = None

---------------------------------------------------------------------------
\* Further properties of monitor_devices and its callbacks (Spec, SpecFair)

\* The events the channel accepted from the latest callback, in order.
AcceptedEvents ==
    LET acc == SelectSeq(emitted, LAMBDA r : r.ok)
    IN  [i \in 1..Len(acc) |-> acc[i].event]

\* C11: the channel holds the events in the order of the sends.  It only grows,
\* at its end, by the event the running callback sends next; the events it
\* accepted from the latest callback are its last ones, in the order sent; and a
\* notification is dispatched only when the callback before it has made all its
\* sends, so the groups follow each other in dispatch order.
C11_ChannelKeepsSendOrder ==
    /\ [](/\ Len(AcceptedEvents) <= Len(chan)
          /\ SubSeq(chan, Len(chan) - Len(AcceptedEvents) + 1, Len(chan))
               = AcceptedEvents)
    /\ [][ chan' # chan
             => /\ cb.todo # << >>
                /\ chan' = Append(chan, Head(cb.todo))
                /\ notifs' = notifs ]_vars
    /\ [][ notifs' # notifs => (cb.todo = << >> /\ chan' = chan) ]_vars

\* Two notifications delivered their two events each, group after group.
C11_Witness ==
    /\ notifs = 2
    /\ cb.todo = << >>
    /\ Handling("disappeared")
    /\ Len(chan) = 4
    /\ chan[1].type = "AddDevice" /\ chan[2].type = "AddVolume"
    /\ chan[3].type = "RemoveVolume" /\ chan[4].type = "RemoveDevice"
    /\ AcceptedEvents = << chan[3], chan[4] >>

\* C12: monitor_devices leaves the run loop only when the loop was stopped, and
\* then only to unschedule, release and return Ok; once the loop is stopped it
\* does so eventually.
C12_ReturnsOnlyAndEventuallyAfterStop ==
    /\ [](PastRunLoop => stopReq)
    /\ [][ (pc = "running" /\ pc' # "running") => (stopReq /\ pc' = "returned") ]_vars
    /\ (pc = "running" /\ stopReq)
          ~> (pc = "done" /\ ret = Ok(<< >>) /\ ~scheduled /\ ctx = "freed")

\* monitor_devices returned Ok after handling notifications and being stopped.
C12_Witness ==
    /\ pc = "done"
    /\ ret = Ok(<< >>)
    /\ stopReq
    /\ notifs > 0
    /\ chan # << >>

\* C15: the context is released only once the session is unscheduled, so from
\* the release on no callback can be invoked.
C15_UnscheduledBeforeRelease ==
    /\ ctx = "freed" => ~scheduled
    /\ pc = "released" => (ctx = "freed" /\ ~scheduled)
    /\ ctx = "freed" =>
          \A kind \in {"appeared", "disappeared", "changed"} : ~CanInvoke(kind)

\* The context has just been released, with the session already unscheduled.
C15_Witness ==
    /\ pc = "released"
    /\ ctx = "freed"
    /\ ~scheduled
    /\ notifs > 0

\* C19: a callback whose disk has no description sends nothing, and
\* disk_disappeared sends a removal exactly for each id its record has: its
\* sends, made and still to make, are RemoveVolume for a volume id, then
\* RemoveDevice for a device id, and nothing for an absent id.
C19_RemovalsOnlyForPresentIds ==
    /\ (cb.kind # "none" /\ ~IsSome(cb.desc)) => (emitted = << >> /\ cb.todo = << >>)
    /\ Handling("disappeared")
         => LET sends == EmittedEvents \o cb.todo IN
              /\ (~IsSome(CbVolumeId) /\ ~IsSome(CbDeviceId)) => sends = << >>
              /\ (~IsSome(CbVolumeId) /\ IsSome(CbDeviceId))
                    => sends = << RemoveDevice(Unwrap(CbDeviceId)) >>
              /\ (IsSome(CbVolumeId) /\ ~IsSome(CbDeviceId))
                    => sends = << RemoveVolume(Unwrap(CbVolumeId)) >>
              /\ Len(sends) <= 2
              /\ \A i \in 1..Len(sends) :
                    \/ sends[i].type = "RemoveVolume" /\ Some(sends[i].id) = CbVolumeId
                    \/ sends[i].type = "RemoveDevice" /\ Some(sends[i].id) = CbDeviceId

\* A record with a device id and no volume id gave RemoveDevice alone.
C19_Witness ==
    /\ Handling("disappeared")
    /\ ~IsSome(CbVolumeId)
    /\ IsSome(CbDeviceId)
    /\ cb.todo = << >>
    /\ emitted = << [event |-> RemoveDevice(Unwrap(CbDeviceId)), ok |-> TRUE] >>

---------------------------------------------------------------------------
\* Further properties of get_devices (SpecSnap, SpecTwice)

\* The volumes of the resolved entries among the first n, in enumeration order.
RECURSIVE ExpectedVolumes(_)
ExpectedVolumes(n) ==
    IF n = 0 THEN << >>
    ELSE IF n \in Resolved
         THEN Append(ExpectedVolumes(n - 1),
                     get_volume_info(Unwrap(mounted[n].desc), None))
         ELSE ExpectedVolumes(n - 1)

\* Two optional ids that are both absent or both present and ==.
SameOptId(a, b) ==
    IF IsSome(a) /\ IsSome(b) THEN DeviceIdEq(Unwrap(a), Unwrap(b))
    ELSE a = b

\* Two devices alike: == ids and == volume ids.
SameDevice(a, b) ==
    /\ SameOptId(a.id, b.id)
    /\ \A e \in a.volumes : HasVolume(b.volumes, e)
    /\ \A e \in b.volumes : HasVolume(a.volumes, e)

\* Two volumes alike: == ids, == device ids, the same other fields.
SameVolume(a, b) ==
    /\ SameOptId(a.id, b.id)
    /\ SameOptId(a.device_id, b.device_id)
    /\ [a EXCEPT !.id = None, !.device_id = None]
         = [b EXCEPT !.id = None, !.device_id = None]

\* C13: two consecutive get_devices calls that both return Ok on an unchanged
\* system return the same devices and the same volumes, as sets.
C13_SameSnapshotTwice ==
    (IsSome(earlier) /\ Unwrap(earlier).ok /\ Returned) =>
       LET one == Unwrap(earlier).val
           two == result.val
       IN  /\ \A i \in 1..Len(one.devices) :
                 \E j \in 1..Len(two.devices) : SameDevice(one.devices[i], two.devices[j])
           /\ \A j \in 1..Len(two.devices) :
                 \E i \in 1..Len(one.devices) : SameDevice(one.devices[i], two.devices[j])
           /\ \A i \in 1..Len(one.volumes) :
                 \E j \in 1..Len(two.volumes) : SameVolume(one.volumes[i], two.volumes[j])
           /\ \A j \in 1..Len(two.volumes) :
                 \E i \in 1..Len(one.volumes) : SameVolume(one.volumes[i], two.volumes[j])

\* C16: the devices get_devices returns never hold two devices with == ids.
C16_NoTwoDevicesWithEqualIds ==
    Returned =>
      \A j, k \in 1..Len(result.val.devices) :
         (j # k /\ IsSome(result.val.devices[j].id) /\ IsSome(result.val.devices[k].id))
           => ~DeviceIdEq(Unwrap(result.val.devices[j].id),
                          Unwrap(result.val.devices[k].id))

\* C17: the volumes returned are the volumes of the resolved entries, one each,
\* in enumeration order; every device returned comes from a resolved entry that
\* has a device id; and a call that got as far as its entries returns Ok.
C17_OneVolumePerResolvedEntry ==
    /\ Returned =>
         /\ result.val.volumes = ExpectedVolumes(Len(mounted))
         /\ \A j \in 1..Len(result.val.devices) :
               \E i \in Resolved :
                  /\ IsSome(EntryDeviceId(i))
                  /\ result.val.devices[j].id = EntryDeviceId(i)
    /\ (gdpc = "done" /\ Len(mounted) > 0 /\ idx = Len(mounted)) => result.ok

\* An unresolved entry, then a resolved one without a device id: one volume
\* (with an id), no device.
C17_Witness ==
    /\ Returned
    /\ Len(mounted) = 2
    /\ 1 \notin Resolved
    /\ 2 \in Resolved
    /\ ~IsSome(EntryDeviceId(2))
    /\ Len(result.val.volumes) = 1
    /\ IsSome(result.val.volumes[1].id)
    /\ result.val.devices = << >>

\* The events the monitor has sent, is yet to send, or has delivered.
AllEvents ==
    { chan[i] : i \in 1..Len(chan) }
      \cup { emitted[i].event : i \in 1..Len(emitted) }
      \cup { cb.todo[i] : i \in 1..Len(cb.todo) }

=============================================================================
